---- MODULE Spec2Model ----
(***************************************************************************)
(* Piotrowski-Kik contact model: lib/pkmodellib.py and pkmodel.py.         *)
(*                                                                         *)
(* Numbers.  Coordinates are exact integers.  The z values of the input    *)
(* files are multiples of ZUnit, which every difference of two grid        *)
(* ordinates divides, so that linear interpolation (a division by such a   *)
(* difference) is exact.  Floating-point rounding is not modelled.         *)
(*                                                                         *)
(* Indices.  numpy indexes from 0, TLA+ sequences from 1.  Every index     *)
(* that the code returns or stores (the rows of nonzeroRuns, ind_l, ind_u, *)
(* ind) keeps its 0-based value; a[ind] of the code is a[ind + 1] here.    *)
(*                                                                         *)
(* A 2d array of shape (n,2) is a sequence of pairs <<y, z>>: column 0 of  *)
(* the code is component 1, column 1 is component 2.                       *)
(*                                                                         *)
(* A call that can raise returns a record [err, val]; err = "none" means   *)
(* the call returned val, any other err is the type of the exception.      *)
(***************************************************************************)
EXTENDS Integers, Sequences, FiniteSets, TLC

VARIABLES
    pc,                   \* the statement of main() to run next
    rail, wheel,          \* main: the profiles loaded by getProfiles
    new_wheel,            \* main: the wheel on the rail's grid
    virtual_penetration,  \* settings.virtual_penetration, once read
    wheel_radius,         \* settings.wheel_radius, once read
    sep,                  \* interpenetration: the separation array
    interpen,             \* main: the interpenetration array
    region_array,         \* maxPressure / nonzeroRuns: the rows found
    max_pressures,        \* main: what maxPressure returned
    pressures,            \* visualizePressureDistribution: the array plotted
    calls,                \* visualizePressureDistribution: its calls of
                          \* maxPressure, one per region
    err                   \* the exception that ended the run, or NoError

vars == <<pc, rail, wheel, new_wheel, virtual_penetration, wheel_radius,
          sep, interpen, region_array, max_pressures, pressures, calls, err>>

-----------------------------------------------------------------------------
(* Bounds of the model *)

\* Longest profile read from a file.
MaxLen == 3

\* Longest array handed to nonzeroRuns on its own.
MaxRunLen == 8

\* Lateral ordinates (column 0) of the profile files.
YGrid == 0..2

RECURSIVE Gcd(_, _)
Gcd(a, b) == IF b = 0 THEN a ELSE Gcd(b, a % b)

Lcm(a, b) == (a * b) \div Gcd(a, b)

RECURSIVE LcmUpTo(_)
LcmUpTo(n) == IF n <= 1 THEN 1 ELSE Lcm(n, LcmUpTo(n - 1))

\* Every difference of two ordinates of YGrid divides ZUnit.
ZUnit == LcmUpTo(Cardinality(YGrid) - 1)

\* z column of the files, before getProfiles turns the axis upwards.
FileZ == {0, -ZUnit}

\* settings.virtual_penetration and settings.wheel_radius.
Delta0Values == {0, 1, ZUnit + 1}
RadiusValues == {0, 1}

\* Elements of the arrays handed to nonzeroRuns on its own.
RunValues == {0, 1, 2}

SeqsUpTo(S, lo, hi) == UNION {[1..n -> S] : n \in lo..hi}

IsStrictlyIncreasing(ys) == \A i \in 1..(Len(ys) - 1) : ys[i] < ys[i + 1]

\* Files of a wheel: any rows.  Files of a rail: rows ordered by y.
WheelFiles == SeqsUpTo(YGrid \X FileZ, 1, MaxLen)
RailFiles ==
    {p \in SeqsUpTo(YGrid \X FileZ, 1, MaxLen) :
        IsStrictlyIncreasing([i \in 1..Len(p) |-> p[i][1]])}

-----------------------------------------------------------------------------
(* numpy and scipy primitives *)

Abs(x) == IF x < 0 THEN -x ELSE x

Column0(p) == [i \in 1..Len(p) |-> p[i][1]]
Column1(p) == [i \in 1..Len(p) |-> p[i][2]]

Front(s) == SubSeq(s, 1, Len(s) - 1)
Last(s) == s[Len(s)]

\* a[l:u] of Python for 0 <= l <= u: the upper bound is exclusive and is
\* clipped to the length.
Slice(a, l, u) ==
    LET hi == IF u < Len(a) THEN u ELSE Len(a)
    IN  IF l >= hi THEN <<>> ELSE SubSeq(a, l + 1, hi)

RECURSIVE SeqMin(_)
SeqMin(s) ==
    IF Len(s) = 1 THEN s[1]
    ELSE LET m == SeqMin(Front(s)) IN IF Last(s) < m THEN Last(s) ELSE m

RECURSIVE SeqSum(_)
SeqSum(s) == IF s = <<>> THEN 0 ELSE SeqSum(Front(s)) + Last(s)

-----------------------------------------------------------------------------
(* getProfiles *)

\* rail[:,1] = - rail[:,1]; wheel[:,1] = - wheel[:,1]
getProfiles(file) == [i \in 1..Len(file) |-> <<file[i][1], -file[i][2]>>]

-----------------------------------------------------------------------------
(* equalPoints *)

\* interp1d sorts its points by x with a stable sort (assume_sorted=False).
RECURSIVE InsertByY(_, _)
InsertByY(s, e) ==
    IF s = <<>> THEN <<e>>
    ELSE IF Last(s)[1] <= e[1] THEN Append(s, e)
    ELSE Append(InsertByY(Front(s), e), Last(s))

RECURSIVE SortByY(_)
SortByY(p) == IF p = <<>> THEN <<>> ELSE InsertByY(SortByY(Front(p)), Last(p))

\* Linear interpolation at x of the sorted points sp, x within their range:
\* j is the last point at or before x.
LinearInterp(sp, x) ==
    LET j == CHOOSE k \in 1..Len(sp) :
                 sp[k][1] <= x /\ (k = Len(sp) \/ sp[k + 1][1] > x)
    IN  IF j = Len(sp) \/ sp[j][1] = x THEN sp[j][2]
        ELSE sp[j][2]
             + ((sp[j + 1][2] - sp[j][2]) * (x - sp[j][1]))
               \div (sp[j + 1][1] - sp[j][1])

\* itp = interp1d(profile1[:,0], profile1[:,1], kind='linear');
\* itp(profile2[:,0]) raises ValueError for a point outside the range of
\* profile1[:,0] (bounds_error).
equalPoints(profile1, profile2) ==
    LET sp == SortByY(profile1)
        x_new == Column0(profile2)
        outside == \E i \in 1..Len(x_new) :
                       x_new[i] < sp[1][1] \/ x_new[i] > Last(sp)[1]
    IN  IF outside THEN [err |-> "ValueError", val |-> <<>>]
        ELSE [err |-> "none",
              val |-> [i \in 1..Len(x_new) |->
                          <<x_new[i], LinearInterp(sp, x_new[i])>>]]


-----------------------------------------------------------------------------
(* separationOfProfiles *)

\* Variant: the minimum is not subtracted.
separationNoShift(wheel_, rail_) ==
    LET a == Column1(wheel_)
        b == Column1(rail_)
        m == Len(a)
        n == Len(b)
        len == IF m > n THEN m ELSE n
    IN  IF m # n /\ m # 1 /\ n # 1
        THEN [err |-> "ValueError", val |-> <<>>]
        ELSE [err |-> "none",
              val |-> [i \in 1..len |->
                          a[IF m = 1 THEN 1 ELSE i]
                          - b[IF n = 1 THEN 1 ELSE i]]]

\* sep = wheel[:,1] - rail[:,1]: numpy subtracts elementwise when the lengths
\* are equal, stretches an operand of length 1 to the other's length, and
\* raises ValueError for any other pair of lengths.
\* min_sep = min(sep); return sep - min_sep
separationOfProfiles(wheel_, rail_) ==
    LET a == Column1(wheel_)
        b == Column1(rail_)
        m == Len(a)
        n == Len(b)
        len == IF m > n THEN m ELSE n
        raw == [i \in 1..len |->
                   a[IF m = 1 THEN 1 ELSE i] - b[IF n = 1 THEN 1 ELSE i]]
    IN  IF m # n /\ m # 1 /\ n # 1
        THEN [err |-> "ValueError", val |-> <<>>]
        ELSE LET min_sep == SeqMin(raw)
             IN  [err |-> "none",
                  val |-> [i \in 1..len |-> raw[i] - min_sep]]

-----------------------------------------------------------------------------
(* interpenetration *)

\* Variant: the else branch of the loop is missing.
noClip(interp) == interp

\* The loop of lines 154-160 at one element.
clip(interp) == IF interp > 0 THEN interp ELSE 0

\* Returns [err, sep, val]: sep is the local of line 150.
interpenetration(wheel_, rail_, delta0) ==
    LET s == separationOfProfiles(wheel_, rail_)
    IN  IF s.err # "none" THEN [err |-> s.err, sep |-> <<>>, val |-> <<>>]
        ELSE [err |-> "none",
              sep |-> s.val,
              val |-> [i \in 1..Len(s.val) |-> clip(delta0 - s.val[i])]]

-----------------------------------------------------------------------------
(* nonzeroRuns *)

\* Variant: np.equal in place of np.not_equal.
equalZero(x) == IF x = 0 THEN 1 ELSE 0

\* np.not_equal(a, 0).view(np.int8) at one element.
notEqualZero(x) == IF x # 0 THEN 1 ELSE 0

\* notzero = np.concatenate(([0], np.not_equal(a, 0).view(np.int8), [0]))
notzero(a) == <<0>> \o [i \in 1..Len(a) |-> notEqualZero(a[i])] \o <<0>>

\* absdiff = np.abs(np.diff(notzero))
absdiff(nz) == [i \in 1..(Len(nz) - 1) |-> Abs(nz[i + 1] - nz[i])]

\* Variant: positions counted from 1.
RECURSIVE whereOneFromOne(_)
whereOneFromOne(d) ==
    IF d = <<>> THEN <<>>
    ELSE IF Last(d) = 1 THEN Append(whereOneFromOne(Front(d)), Len(d))
    ELSE whereOneFromOne(Front(d))

\* np.where(absdiff == 1)[0]: the 0-based positions of the ones, ascending.
RECURSIVE whereOne(_)
whereOne(d) ==
    IF d = <<>> THEN <<>>
    ELSE IF Last(d) = 1 THEN Append(whereOne(Front(d)), Len(d) - 1)
    ELSE whereOne(Front(d))

\* Variant: every position is paired with the next one.
reshapeSliding(w) == [k \in 1..(Len(w) - 1) |-> <<w[k], w[k + 1]>>]

\* .reshape(-1, 2): consecutive pairs become rows.  The padded mask starts
\* and ends with 0, so the number of changes is even.
reshape2(w) == [k \in 1..(Len(w) \div 2) |-> <<w[2 * k - 1], w[2 * k]>>]

nonzeroRuns(a) == reshape2(whereOne(absdiff(notzero(a))))

-----------------------------------------------------------------------------
(* maxPressure *)

\* x_front_edge(ind) ** 2 = 2. * radius * g_array[ind]
xFrontEdgeSq(g_array, radius, ind) == 2 * radius * g_array[ind + 1]

\* range(ind_l, ind_u)
range(ind_l, ind_u) == [k \in 1..(ind_u - ind_l) |-> ind_l + k - 1]

\* The inner loop over one region.  The two quadratures at node ind are
\* functions of x_f and y_array[ind] alone; their sums int2_f1 and int2_f2
\* are kept as the sequence of the nodes' terms, in the order of the loop.
\* Both integrands are nonnegative and the interval is [-x_f, x_f], so each
\* sum is 0 exactly when every x_f of the region is 0.
\* y_array[ind] raises IndexError for ind beyond the wheel.
regionTerms(y_array, g_array, radius, region) ==
    [k \in 1..(region[2] - region[1]) |->
        LET ind == range(region[1], region[2])[k]
        IN  [ind |-> ind,
             x_f_sq |-> xFrontEdgeSq(g_array, radius, ind),
             y |-> y_array[ind + 1]]]

sumIsZero(terms) == \A k \in 1..Len(terms) : terms[k].x_f_sq = 0

\* One pass of the loop of lines 238-252.  All scalars are Python floats
\* (quad returns one, np.pi is one), so coef / int2_f1 with int2_f1 = 0.0
\* raises ZeroDivisionError.  patch is the index range an exception names:
\* Python's ZeroDivisionError and IndexError carry a message and no range.
\* pmax is kept as the terms of its two sums and the squared edge
\* 2. * radius * delta0 of its last factor.
regionPressure(y_array, g_array, radius, delta0, region) ==
    IF region[2] > Len(y_array)
    THEN [err |-> "IndexError", patch |-> <<>>, val |-> <<>>]
    ELSE LET terms == regionTerms(y_array, g_array, radius, region)
         IN  IF sumIsZero(terms)
             THEN [err |-> "ZeroDivisionError",
                   patch |-> <<>>,
                   val |-> <<>>]
             ELSE [err |-> "none", patch |-> <<>>,
                   val |-> <<[terms |-> terms,
                              edge_sq |-> 2 * radius * delta0]>>]

\* for region in region_array: ... pmax_array.append(pmax)
\* The first region that raises ends the call.
RECURSIVE pressureLoop(_, _, _, _, _)
pressureLoop(y_array, g_array, radius, delta0, regions) ==
    IF regions = <<>> THEN [err |-> "none", patch |-> <<>>, val |-> <<>>]
    ELSE LET done == pressureLoop(y_array, g_array, radius, delta0,
                                  Front(regions))
         IN  IF done.err # "none" THEN done
             ELSE LET r == regionPressure(y_array, g_array, radius, delta0,
                                          Last(regions))
                  IN  IF r.err # "none" THEN r
                      ELSE [err |-> "none", patch |-> <<>>,
                            val |-> done.val \o r.val]

\* Variant: the return statement is inside the loop.
maxPressureReturnInLoop(wheel_, g_array, radius, delta0) ==
    LET regions == nonzeroRuns(g_array)
        r == pressureLoop(Column0(wheel_), g_array, radius, delta0,
                          IF regions = <<>> THEN <<>> ELSE <<regions[1]>>)
    IN  [err |-> r.err, patch |-> r.patch, val |-> r.val, regions |-> regions]

\* Returns [err, patch, val, regions]: regions is the local region_array.
maxPressure(wheel_, g_array, radius, delta0) ==
    LET regions == nonzeroRuns(g_array)
        r == pressureLoop(Column0(wheel_), g_array, radius, delta0, regions)
    IN  [err |-> r.err, patch |-> r.patch, val |-> r.val, regions |-> regions]

-----------------------------------------------------------------------------
(* visualizePressureDistribution *)

\* pressures = np.zeros_like(y_array)
Zero == [kind |-> "zero"]

\* Variant: the upper bound of the slices is taken as inclusive.
regionSliceInclusive(a, region) == Slice(a, region[1], region[2] + 1)

\* The slices of line 41, 42 and 45.
regionSlice(a, region) == Slice(a, region[1], region[2])

\* pressures[ind_l:ind_u] = values
assignSlice(p, region, values) ==
    [i \in 1..Len(p) |->
        IF region[1] < i /\ i <= region[2] /\ i - region[1] <= Len(values)
        THEN values[i - region[1]] ELSE p[i]]

\* pmax * np.sqrt(1 - xi**2) at each node of the region, with
\* xi = (y - mean(y_region)) / a and a = (y_region[-1] - y_region[0]) / 2,
\* kept as the fraction xi_num / xi_den (a = 0 makes it 0/0, a nan).
halfEllipse(pmax, y_region) ==
    LET n == Len(y_region)
        total == SeqSum(y_region)
    IN  [k \in 1..n |->
            [kind |-> "pmax*sqrt(1-xi^2)",
             pmax |-> pmax,
             xi_num |-> 2 * (n * y_region[k] - total),
             xi_den |-> n * (y_region[n] - y_region[1])]]

\* The loop of lines 38-55.  Returns [err, patch, val, calls]: calls records,
\* per region, the arrays handed to maxPressure and what it returned.
RECURSIVE visualizeLoop(_, _, _, _, _)
visualizeLoop(wheel_, interpen_, radius, delta0, regions) ==
    IF regions = <<>>
    THEN [err |-> "none", patch |-> <<>>,
          val |-> [i \in 1..Len(wheel_) |-> Zero], calls |-> <<>>]
    ELSE LET done == visualizeLoop(wheel_, interpen_, radius, delta0,
                                   Front(regions))
             region == Last(regions)
             g_region == regionSlice(interpen_, region)
             y_region == regionSlice(Column0(wheel_), region)
             inner == maxPressure(regionSlice(wheel_, region), g_region,
                                  radius, delta0)
             call == [region |-> region, g_region |-> g_region,
                      y_region |-> y_region, regions |-> inner.regions,
                      pmax |-> inner.val]
         IN  IF done.err # "none" THEN done
             ELSE IF inner.err # "none"
             THEN [err |-> inner.err, patch |-> inner.patch, val |-> <<>>,
                   calls |-> <<>>]
             ELSE IF inner.val = <<>>
             THEN [err |-> "IndexError", patch |-> <<>>, val |-> <<>>,
                   calls |-> <<>>]
             ELSE [err |-> "none", patch |-> <<>>,
                   val |-> assignSlice(done.val, region,
                                       halfEllipse(inner.val[1], y_region)),
                   calls |-> Append(done.calls, call)]

visualizePressureDistribution(wheel_, interpen_, radius, delta0) ==
    visualizeLoop(wheel_, interpen_, radius, delta0, nonzeroRuns(interpen_))

-----------------------------------------------------------------------------
(* State machine of main() *)

NoError == [type |-> "none", patch |-> <<>>]

Init ==
    /\ pc = "getProfiles"
    /\ rail = <<>>
    /\ wheel = <<>>
    /\ new_wheel = <<>>
    /\ virtual_penetration = 0
    /\ wheel_radius = 0
    /\ sep = <<>>
    /\ interpen = <<>>
    /\ region_array = <<>>
    /\ max_pressures = <<>>
    /\ pressures = <<>>
    /\ calls = <<>>
    /\ err = NoError

\* rail, wheel = pkl.getProfiles(s.rail_path, s.wheel_path)
GetProfiles ==
    /\ pc = "getProfiles"
    /\ \E rf \in RailFiles, wf \in WheelFiles :
          /\ rail' = getProfiles(rf)
          /\ wheel' = getProfiles(wf)
    /\ pc' = "equalPoints"
    /\ UNCHANGED <<new_wheel, virtual_penetration, wheel_radius, sep, interpen,
                   region_array, max_pressures, pressures, calls, err>>

\* new_wheel = pkl.equalPoints(wheel, rail)
EqualPoints ==
    /\ pc = "equalPoints"
    /\ LET r == equalPoints(wheel, rail)
       IN  /\ new_wheel' = r.val
           /\ err' = [type |-> r.err, patch |-> <<>>]
           /\ pc' = IF r.err = "none" THEN "interpenetration" ELSE "raised"
    /\ UNCHANGED <<rail, wheel, virtual_penetration, wheel_radius, sep,
                   interpen, region_array, max_pressures, pressures, calls>>

\* interpen = pkl.interpenetration(new_wheel, rail, s.virtual_penetration)
\* The setting is a constant of the run; it is drawn where it is first read.
Interpenetration ==
    /\ pc = "interpenetration"
    /\ \E delta0 \in Delta0Values :
          LET r == interpenetration(new_wheel, rail, delta0)
          IN  /\ virtual_penetration' = delta0
              /\ sep' = r.sep
              /\ interpen' = r.val
              /\ err' = [type |-> r.err, patch |-> <<>>]
              /\ pc' = IF r.err = "none" THEN "maxPressure" ELSE "raised"
    /\ UNCHANGED <<rail, wheel, new_wheel, wheel_radius, region_array,
                   max_pressures, pressures, calls>>

\* max_pressures = pkl.maxPressure(new_wheel, interpen, s.wheel_radius, ...)
\* print (max_pressures); the two plots that follow change nothing.
MaxPressure ==
    /\ pc = "maxPressure"
    /\ \E radius \in RadiusValues :
          LET r == maxPressure(new_wheel, interpen, radius,
                               virtual_penetration)
          IN  /\ wheel_radius' = radius
              /\ region_array' = r.regions
              /\ max_pressures' = r.val
              /\ err' = [type |-> r.err, patch |-> r.patch]
              /\ pc' = IF r.err = "none" THEN "visualize" ELSE "raised"
    /\ UNCHANGED <<rail, wheel, new_wheel, virtual_penetration, sep, interpen,
                   pressures, calls>>

\* visualizePressureDistribution(new_wheel, interpen, s.wheel_radius, ...)
VisualizePressureDistribution ==
    /\ pc = "visualize"
    /\ LET r == visualizePressureDistribution(new_wheel, interpen,
                                              wheel_radius,
                                              virtual_penetration)
       IN  /\ pressures' = r.val
           /\ calls' = r.calls
           /\ err' = [type |-> r.err, patch |-> r.patch]
           /\ pc' = IF r.err = "none" THEN "done" ELSE "raised"
    /\ UNCHANGED <<rail, wheel, new_wheel, virtual_penetration, wheel_radius,
                   sep, interpen, region_array, max_pressures>>

Next ==
    \/ GetProfiles
    \/ EqualPoints
    \/ Interpenetration
    \/ MaxPressure
    \/ VisualizePressureDistribution

Spec == Init /\ [][Next]_vars

-----------------------------------------------------------------------------
(* The library called on profiles that were not aligned first: the steps   *)
(* of main() from interpenetration on, on any two profiles.                *)

\* Profiles on the grid 0, 1, ..., n-1.
GridProfiles ==
    {[i \in 1..Len(zs) |-> <<i - 1, zs[i]>>] :
        zs \in SeqsUpTo({0, ZUnit}, 1, MaxLen)}

InitUnaligned ==
    /\ pc = "interpenetration"
    /\ rail \in GridProfiles
    /\ new_wheel \in GridProfiles
    /\ wheel = new_wheel
    /\ virtual_penetration = 0
    /\ wheel_radius = 0
    /\ sep = <<>>
    /\ interpen = <<>>
    /\ region_array = <<>>
    /\ max_pressures = <<>>
    /\ pressures = <<>>
    /\ calls = <<>>
    /\ err = NoError

NextUnaligned ==
    \/ Interpenetration
    \/ MaxPressure
    \/ VisualizePressureDistribution

SpecUnaligned == InitUnaligned /\ [][NextUnaligned]_vars

-----------------------------------------------------------------------------
(* nonzeroRuns called on its own, on any array of nonnegative scalars.     *)

InitRuns ==
    /\ pc = "nonzeroRuns"
    /\ interpen \in SeqsUpTo(RunValues, 0, MaxRunLen)
    /\ rail = <<>>
    /\ wheel = <<>>
    /\ new_wheel = <<>>
    /\ virtual_penetration = 0
    /\ wheel_radius = 0
    /\ sep = <<>>
    /\ region_array = <<>>
    /\ max_pressures = <<>>
    /\ pressures = <<>>
    /\ calls = <<>>
    /\ err = NoError

\* ranges = nonzeroRuns(a)
NonzeroRuns ==
    /\ pc = "nonzeroRuns"
    /\ region_array' = nonzeroRuns(interpen)
    /\ pc' = "returned"
    /\ UNCHANGED <<rail, wheel, new_wheel, virtual_penetration, wheel_radius,
                   sep, interpen, max_pressures, pressures, calls, err>>

NextRuns == NonzeroRuns

SpecRuns == InitRuns /\ [][NextRuns]_vars

-----------------------------------------------------------------------------
(* Properties *)

\* Node i (0-based) lies in the half-open range r = <<start, end>>.
InRange(i, r) == r[1] <= i /\ i < r[2]

Nodes(a) == 0..(Len(a) - 1)

AllZero(a) == \A i \in 1..Len(a) : a[i] = 0

Max0(x) == IF x > 0 THEN x ELSE 0

\* main() has gone past the call of the named step.
PastInterpenetration == pc \in {"maxPressure", "visualize", "done"}
PastMaxPressure == pc \in {"visualize", "done"}

\* C1: nonzeroRuns(a), for an array a of nonnegative scalars, is the ordered
\* list of the maximal half-open ranges of strictly positive elements: the
\* ranges lie within the array and are ordered by start, every positive node
\* lies in exactly one of them, every node of a range is positive, and a
\* range starts at 0 or after a zero and ends at len(a) or before a zero.
C1_MaximalPositiveRuns ==
    pc = "returned" =>
        LET a == interpen
            R == region_array
            n == Len(a)
        IN  /\ \A k \in 1..Len(R) :
                   0 <= R[k][1] /\ R[k][1] < R[k][2] /\ R[k][2] <= n
            /\ \A k \in 1..(Len(R) - 1) : R[k][1] < R[k + 1][1]
            /\ \A i \in Nodes(a) :
                   a[i + 1] > 0 =>
                       Cardinality({k \in 1..Len(R) : InRange(i, R[k])}) = 1
            /\ \A k \in 1..Len(R) :
                   \A i \in Nodes(a) : InRange(i, R[k]) => a[i + 1] > 0
            /\ \A k \in 1..Len(R) :
                   /\ R[k][1] = 0 \/ a[R[k][1]] = 0
                   /\ R[k][2] = n \/ a[R[k][2] + 1] = 0

\* A run at each end of the array and a zero between them.
C1_Witness ==
    /\ pc = "returned"
    /\ Len(region_array) >= 2
    /\ region_array[1][1] = 0
    /\ Last(region_array)[2] = Len(interpen)
    /\ Len(interpen) >= 5

\* C2: the edge cases of nonzeroRuns: an all-zero array of any length, the
\* empty one included, gives no range; an all-positive array of length
\* n >= 1 gives the single range [0, n); a positive element at i between
\* zeros or array ends gives the range [i, i+1); and [0,0,1,1,0,1,0,0] gives
\* [[2,4],[5,6]].
C2_EdgeCases ==
    pc = "returned" =>
        LET a == interpen
            R == region_array
            n == Len(a)
        IN  /\ AllZero(a) => R = <<>>
            /\ (n >= 1 /\ \A i \in 1..n : a[i] > 0) => R = << <<0, n>> >>
            /\ \A i \in Nodes(a) :
                   ( /\ a[i + 1] > 0
                     /\ i = 0 \/ a[i] = 0
                     /\ i = n - 1 \/ a[i + 2] = 0 )
                   => \E k \in 1..Len(R) : R[k] = <<i, i + 1>>
            /\ a = <<0, 0, 1, 1, 0, 1, 0, 0>> => R = << <<2, 4>>, <<5, 6>> >>

C2_Witness ==
    /\ pc = "returned"
    /\ interpen = <<0, 0, 1, 1, 0, 1, 0, 0>>
    /\ region_array = << <<2, 4>>, <<5, 6>> >>

\* C3: the contact patches found on the interpenetration array of a run
\* never overlap, never have zero length, lie within [0, len(array)], and
\* each patch ends strictly before the next one starts.
C3_PatchesDisjointOrdered ==
    PastMaxPressure \/ pc = "raised" =>
        LET R == region_array
        IN  /\ \A k \in 1..Len(R) :
                   0 <= R[k][1] /\ R[k][1] < R[k][2]
                   /\ R[k][2] <= Len(interpen)
            /\ \A k \in 1..(Len(R) - 1) : R[k][2] < R[k + 1][1]
            /\ \A j, k \in 1..Len(R) :
                   j # k => ~ \E i \in Nodes(interpen) :
                                 InRange(i, R[j]) /\ InRange(i, R[k])

C3_Witness ==
    /\ pc = "visualize"
    /\ Len(region_array) >= 2

\* C4: interpenetration returns g of the length of the shared node grid with
\* g[i] = max(0, delta0 - sep[i]) at every node; so g >= 0 everywhere and
\* g[i] = 0 wherever sep[i] >= delta0.
C4_Interpenetration ==
    PastInterpenetration =>
        /\ Len(interpen) = Len(rail)
        /\ Len(interpen) = Len(new_wheel)
        /\ Len(interpen) = Len(sep)
        /\ \A i \in 1..Len(interpen) :
               /\ interpen[i] = Max0(virtual_penetration - sep[i])
               /\ interpen[i] >= 0
               /\ sep[i] >= virtual_penetration => interpen[i] = 0

\* Some node is clipped to zero from a negative difference, another is not.
C4_Witness ==
    /\ pc = "maxPressure"
    /\ \E i \in 1..Len(interpen) : virtual_penetration - sep[i] < 0
    /\ \E i \in 1..Len(interpen) : interpen[i] > 0

\* C5: for aligned profiles of equal length n >= 1, separationOfProfiles
\* returns an array of length n equal to the differences wheel.z - rail.z
\* minus their minimum; so every element is >= 0 and the least is exactly 0,
\* also when a raw difference is negative, and no error is raised.
C5_Separation ==
    (pc \in {"maxPressure", "visualize", "done"}
        \/ (pc = "raised" /\ interpen # <<>>)) =>
        LET n == Len(rail)
            raw == [i \in 1..n |-> new_wheel[i][2] - rail[i][2]]
        IN  /\ Len(new_wheel) = n
            /\ Len(sep) = n
            /\ \E j \in 1..n :
                   /\ \A m \in 1..n : raw[j] <= raw[m]
                   /\ \A i \in 1..n : sep[i] = raw[i] - raw[j]
            /\ \A i \in 1..n : sep[i] >= 0
            /\ \E i \in 1..n : sep[i] = 0

\* Overlapping profiles: a raw difference is negative, and they differ.
C5_Witness ==
    /\ pc = "maxPressure"
    /\ \E i \in 1..Len(rail) : new_wheel[i][2] - rail[i][2] < 0
    /\ \E i \in 1..Len(sep) : sep[i] > 0

\* C6: maxPressure returns one peak pressure per contact patch of its
\* interpenetration array, the k-th result being that of the k-th patch;
\* an all-zero interpenetration array gives no patch and an empty result,
\* and no error.
C6_OnePressurePerPatch ==
    /\ PastMaxPressure =>
           /\ region_array = nonzeroRuns(interpen)
           /\ Len(max_pressures) = Len(region_array)
           /\ \A k \in 1..Len(max_pressures) :
                  LET t == max_pressures[k].terms
                  IN  /\ Len(t) >= 1
                      /\ t[1].ind = region_array[k][1]
                      /\ t[Len(t)].ind = region_array[k][2] - 1
    /\ (interpen # <<>> /\ AllZero(interpen) /\ pc # "maxPressure") =>
           /\ PastMaxPressure
           /\ err = NoError
           /\ region_array = <<>>
           /\ max_pressures = <<>>

C6_Witness ==
    /\ pc = "visualize"
    /\ Len(max_pressures) = 2
    /\ max_pressures[2].terms[1].ind = region_array[2][1]

C6_WitnessNoContact ==
    /\ pc = "visualize"
    /\ interpen # <<>>
    /\ AllZero(interpen)
    /\ max_pressures = <<>>

\* Past the call of equalPoints, whether it returned or raised.
PastEqualPoints == pc \notin {"getProfiles", "equalPoints"}

\* Past the call of maxPressure, whether it returned or raised.
MaxPressureCalled == PastMaxPressure \/ (pc = "raised" /\ interpen # <<>>)

\* The y-domain of the source profile covers the y-range of the reference.
Covers(source, reference) ==
    \A i \in 1..Len(reference) :
        /\ \E j \in 1..Len(source) : source[j][1] <= reference[i][1]
        /\ \E j \in 1..Len(source) : source[j][1] >= reference[i][1]

\* int2_f1 of the region is zero.
Degenerate(region) ==
    sumIsZero(regionTerms(Column0(new_wheel), interpen, wheel_radius, region))

\* C7: in maxPressure a patch whose summed first integral is zero surfaces
\* as a division error of that patch, tagged with the patch's index range,
\* and no returned pressure is that of a zero sum.
C7_DivisionErrorPerPatch ==
    MaxPressureCalled =>
        /\ \A k \in 1..Len(region_array) :
               Degenerate(region_array[k]) =>
                   /\ err.type \in {"DivisionError", "ZeroDivisionError"}
                   /\ err.patch = region_array[k]
        /\ \A k \in 1..Len(max_pressures) :
               ~ sumIsZero(max_pressures[k].terms)

\* C8: separationOfProfiles raises for every two profiles of unequal
\* lengths, a profile of a single node included; the run ends there, before
\* any segmentation or pressure computation, and no separation array is
\* returned.
C8_LengthMismatchRaises ==
    (pc # "interpenetration" /\ Len(new_wheel) # Len(rail)) =>
        /\ pc = "raised"
        /\ err.type = "ValueError"
        /\ sep = <<>>
        /\ interpen = <<>>
        /\ region_array = <<>>
        /\ max_pressures = <<>>

\* C9: equalPoints(source, reference) raises if the source's y-domain does
\* not cover the reference's y-range or the source's y is not strictly
\* increasing; otherwise it returns a profile of the reference's length and
\* y-coordinates.
C9_AlignmentContract ==
    PastEqualPoints =>
        IF ~ Covers(wheel, rail) \/ ~ IsStrictlyIncreasing(Column0(wheel))
        THEN /\ pc = "raised"
             /\ err.type = "ValueError"
             /\ new_wheel = <<>>
        ELSE /\ Len(new_wheel) = Len(rail)
             /\ Column0(new_wheel) = Column0(rail)

\* C10: one exclusive-upper-bound convention throughout: for every patch
\* [start, end) maxPressure integrates over the nodes start..end-1, and
\* visualizePressureDistribution hands the nodes start..end-1 to maxPressure
\* (which finds one patch spanning its whole input and returns one pmax),
\* writes pressures at start..end-1 only, and leaves every other entry zero.
C10_HalfOpenThroughout ==
    pc = "done" =>
        LET R == region_array
            width(k) == R[k][2] - R[k][1]
        IN  /\ Len(max_pressures) = Len(R)
            /\ \A k \in 1..Len(R) :
                   LET t == max_pressures[k].terms
                   IN  /\ Len(t) = width(k)
                       /\ \A j \in 1..Len(t) : t[j].ind = R[k][1] + j - 1
            /\ Len(calls) = Len(R)
            /\ \A k \in 1..Len(R) :
                   LET c == calls[k]
                   IN  /\ c.region = R[k]
                       /\ Len(c.g_region) = width(k)
                       /\ Len(c.y_region) = width(k)
                       /\ \A j \in 1..width(k) :
                              /\ c.g_region[j] = interpen[R[k][1] + j]
                              /\ c.y_region[j] = new_wheel[R[k][1] + j][1]
                       /\ c.regions = << <<0, width(k)>> >>
                       /\ Len(c.pmax) = 1
                       /\ Len(c.pmax[1].terms) = width(k)
            /\ Len(pressures) = Len(new_wheel)
            /\ \A i \in Nodes(pressures) :
                   (\E k \in 1..Len(R) : InRange(i, R[k]))
                       <=> pressures[i + 1].kind # "zero"

\* A patch of two nodes or more with a node after its end.
C10_Witness ==
    /\ pc = "done"
    /\ \E k \in 1..Len(region_array) :
           /\ region_array[k][2] - region_array[k][1] >= 2
           /\ region_array[k][2] < Len(interpen)
           /\ pressures[region_array[k][2] + 1].kind = "zero"
           /\ pressures[region_array[k][2]].kind # "zero"
====
